---- MODULE Spec2Model ----
(***************************************************************************)
(* Channel-dependency grouping of mmrazor                                  *)
(* (mmrazor/structures/graph/channel_modules.py): BaseChannelGroup,        *)
(* ChannelElement and ChannelTensor.                                       *)
(*                                                                         *)
(* Objects are addressed by identifiers: groups are 1..Len(channel_elems), *)
(* elements are 1..Len(group).  A Python dict is a sequence of             *)
(* [key, val] records in insertion order, a Python list is a sequence.     *)
(* Every method is an operator from a heap record to a heap record.  A     *)
(* raised exception is recorded in the field exc and everything that was   *)
(* mutated before the raise stays mutated; a statement reached with an     *)
(* exception pending does nothing, which is how the exception propagates   *)
(* to the top-level call.                                                  *)
(***************************************************************************)
EXTENDS Integers, Sequences, FiniteSets, TLC

\* ------------------------------------------------------------------ bounds
MaxLen == 3          \* longest tensor that is constructed directly
MaxTensors == 3      \* number of ChannelTensors alive at once
MaxElems == 8        \* number of ChannelElements alive at once
MaxSteps == 3        \* number of top-level calls in one run
MaxNums == 2         \* longest nums list handed to split_group
MaxRatio == 2        \* largest expand ratio
MaxKey == 1          \* largest bucket key handed to add_channel_elem
MaxSamples == 2      \* largest AutoSlim.num_samples
MaxChoice == 2       \* number of choices of the mutator's channel group

None == 0            \* the value of ChannelElement.group when it has no group
NoExc == "none"      \* no exception has been raised

\* ------------------------------------------------- Python dict and list
dict_has(d, k) == \E n \in DOMAIN d : d[n].key = k

dict_get(d, k) == d[CHOOSE n \in DOMAIN d : d[n].key = k].val

dict_set(d, k, v) ==
  IF dict_has(d, k)
  THEN [n \in DOMAIN d |-> IF d[n].key = k THEN [key |-> k, val |-> v] ELSE d[n]]
  ELSE Append(d, [key |-> k, val |-> v])

dict_pop(d, k) == SelectSeq(d, LAMBDA x : x.key # k)

dict_keys(d) == [n \in DOMAIN d |-> d[n].key]

list_has(l, x) == \E n \in DOMAIN l : l[n] = x

\* list.remove(x): the first occurrence of x is removed
list_remove(l, x) ==
  LET p == CHOOSE n \in DOMAIN l : l[n] = x /\ \A m \in 1..(n - 1) : l[m] # x
  IN [n \in 1..(Len(l) - 1) |-> IF n < p THEN l[n] ELSE l[n + 1]]

\* range(0, num)
range0(num) == [n \in 1..(IF num > 0 THEN num ELSE 0) |-> n - 1]

RECURSIVE sum(_)
sum(nums) == IF nums = <<>> THEN 0 ELSE Head(nums) + sum(Tail(nums))

\* ------------------------------------------------------------- the heap
\* channel_elems[g]            BaseChannelGroup.channel_elems of group g
\* group[e], index_in_group[e] ChannelElement.group, .index_in_group of e
\* index_in_channel_tensor[e]  ChannelElement.index_in_channel_tensor of e
\* exc                         the exception that is propagating, or NoExc
\* ret                         the value the last returning call returned
EmptyHeap ==
  [channel_elems |-> <<>>, group |-> <<>>, index_in_group |-> <<>>,
   index_in_channel_tensor |-> <<>>, exc |-> NoExc, ret |-> <<>>]

ok(h) == h.exc = NoExc

raise(h, e) == IF ~ok(h) THEN h ELSE [h EXCEPT !.exc = e]

return(h, v) == IF ~ok(h) THEN h ELSE [h EXCEPT !.ret = v]

\* BaseChannelGroup(): a new group with no bucket; ret is the new group
BaseChannelGroup_init(h) ==
  IF ~ok(h) THEN h
  ELSE [h EXCEPT !.channel_elems = Append(@, <<>>),
                 !.ret = <<Len(h.channel_elems) + 1>>]

\* ChannelElement(index_in_tensor)
ChannelElement_init(h, index_in_tensor) ==
  IF ~ok(h) THEN h
  ELSE [h EXCEPT !.group = Append(@, None),
                 !.index_in_group = Append(@, -1),
                 !.index_in_channel_tensor = Append(@, index_in_tensor)]

\* len(group)
len(h, self) == Len(h.channel_elems[self])

\* self.channel_elems.pop(i)
pop(h, self, i) ==
  IF ~ok(h) THEN h
  ELSE IF ~dict_has(h.channel_elems[self], i) THEN raise(h, "KeyError")
  ELSE [h EXCEPT !.channel_elems[self] = dict_pop(@, i)]

\* ------------------------------------------------------- ChannelElement
\* _register_group that also takes the bucket key for the position in the tensor
_register_group_repositions(h, self, grp, index) ==
  IF ~ok(h) THEN h
  ELSE [h EXCEPT !.group[self] = grp, !.index_in_group[self] = index,
                 !.index_in_channel_tensor[self] = index]

_register_group(h, self, grp, index) ==
  IF ~ok(h) THEN h
  ELSE [h EXCEPT !.group[self] = grp, !.index_in_group[self] = index]

\* _clean_group_info that leaves index_in_group as it was
_clean_group_info_keeps_index(h, self) ==
  IF ~ok(h) THEN h
  ELSE [h EXCEPT !.group[self] = None]

_clean_group_info(h, self) ==
  IF ~ok(h) THEN h
  ELSE [h EXCEPT !.group[self] = None, !.index_in_group[self] = -1]

\* _clean_channel_info that drops the bucket the element was the last of
_clean_channel_info_pops(h, self, channel_elem, index) ==
  IF ~ok(h) THEN h
  ELSE IF ~dict_has(h.channel_elems[self], index) THEN raise(h, "KeyError")
  ELSE IF ~list_has(dict_get(h.channel_elems[self], index), channel_elem)
  THEN raise(h, "ValueError")
  ELSE IF dict_get(h.channel_elems[self], index) = <<channel_elem>>
  THEN [h EXCEPT !.channel_elems[self] = dict_pop(@, index)]
  ELSE [h EXCEPT !.channel_elems[self] =
                   dict_set(@, index, list_remove(dict_get(@, index), channel_elem))]

\* self[index].remove(channel_elem): KeyError without the bucket, ValueError
\* when the bucket does not hold the element
_clean_channel_info(h, self, channel_elem, index) ==
  IF ~ok(h) THEN h
  ELSE IF ~dict_has(h.channel_elems[self], index) THEN raise(h, "KeyError")
  ELSE IF ~list_has(dict_get(h.channel_elems[self], index), channel_elem)
  THEN raise(h, "ValueError")
  ELSE [h EXCEPT !.channel_elems[self] =
                   dict_set(@, index, list_remove(dict_get(@, index), channel_elem))]

\* remove_from_group that forgets the bucket: only the element's own group
\* info is cleared
remove_from_group_forgets(h, self) ==
  IF ~ok(h) THEN h
  ELSE IF h.group[self] = None THEN raise(h, "AttributeError")
  ELSE _clean_group_info(h, self)

\* self.group is None: None has no _clean_channel_info (AttributeError)
remove_from_group(h, self) ==
  IF ~ok(h) THEN h
  ELSE IF h.group[self] = None THEN raise(h, "AttributeError")
  ELSE _clean_group_info(
         _clean_channel_info(h, h.group[self], self, h.index_in_group[self]), self)

\* if channel_elem.group is not None: channel_elem.remove_from_group()
remove_if_grouped(h, channel_elem) ==
  IF ~ok(h) THEN h
  ELSE IF h.group[channel_elem] # None THEN remove_from_group(h, channel_elem)
  ELSE h

\* ----------------------------------------------------- BaseChannelGroup
\* _add_channel_info without the assertion that the element is not of self
_add_channel_info_unchecked(h, self, channel_elem, index) ==
  IF ~ok(h) THEN h
  ELSE [h EXCEPT !.channel_elems[self] =
                   dict_set(@, index,
                            Append(IF dict_has(@, index) THEN dict_get(@, index)
                                   ELSE <<>>, channel_elem))]

_add_channel_info(h, self, channel_elem, index) ==
  IF ~ok(h) THEN h
  ELSE IF h.group[channel_elem] = self THEN raise(h, "AssertionError")
  ELSE [h EXCEPT !.channel_elems[self] =
                   dict_set(@, index,
                            Append(IF dict_has(@, index) THEN dict_get(@, index)
                                   ELSE <<>>, channel_elem))]

\* add_channel_elem that does not remove the element from its old group
add_channel_elem_keeps(h, self, channel_elem, index) ==
  _register_group(_add_channel_info(h, self, channel_elem, index),
                  channel_elem, self, index)

add_channel_elem(h, self, channel_elem, index) ==
  _register_group(
    remove_if_grouped(_add_channel_info(h, self, channel_elem, index), channel_elem),
    channel_elem, self, index)

\* for channel_elem in elems: self.add_channel_elem(channel_elem, index)
RECURSIVE add_all(_, _, _, _)
add_all(h, self, elems, index) ==
  IF ~ok(h) \/ elems = <<>> THEN h
  ELSE add_all(add_channel_elem(h, self, Head(elems), index), self, Tail(elems), index)

\* _reindex, line 159-162: each element of bucket i is removed from its group
\* when it has one, and added to bucket j of self
RECURSIVE reindex_move(_, _, _, _)
reindex_move(h, self, elems, j) ==
  IF ~ok(h) \/ elems = <<>> THEN h
  ELSE reindex_move(
         add_channel_elem(remove_if_grouped(h, Head(elems)), self, Head(elems), j),
         self, Tail(elems), j)

\* _reindex, the loop over a copy of the keys in the dict's order; j advances
\* only when a bucket is moved (line 164), not when j == i (line 165-166)
RECURSIVE reindex_loop(_, _, _, _)
reindex_loop(h, self, keys, j) ==
  IF ~ok(h) \/ keys = <<>> THEN h
  ELSE IF Len(dict_get(h.channel_elems[self], Head(keys))) = 0
  THEN reindex_loop(pop(h, self, Head(keys)), self, Tail(keys), j)
  ELSE IF j < Head(keys)
  THEN reindex_loop(
         pop(reindex_move(h, self, dict_get(h.channel_elems[self], Head(keys)), j),
             self, Head(keys)),
         self, Tail(keys), j + 1)
  ELSE IF j = Head(keys)
  THEN reindex_loop(h, self, Tail(keys), j)
  ELSE raise(h, "Exception")

_reindex(h, self) ==
  IF ~ok(h) THEN h
  ELSE reindex_loop(h, self, dict_keys(h.channel_elems[self]), 0)

\* _split_a_new_group that does not advance j: every bucket goes to bucket j
\* of new_group
RECURSIVE split_loop_flat(_, _, _, _, _)
split_loop_flat(h, self, new_group, indexes, j) ==
  IF ~ok(h) \/ indexes = <<>> THEN h
  ELSE IF ~dict_has(h.channel_elems[self], Head(indexes)) THEN raise(h, "KeyError")
  ELSE split_loop_flat(
         pop(add_all(h, new_group, dict_get(h.channel_elems[self], Head(indexes)), j),
             self, Head(indexes)),
         self, new_group, Tail(indexes), j)

\* _split_a_new_group, the loop over indexes: bucket i of self goes to bucket
\* j of new_group and is popped from self
RECURSIVE split_loop(_, _, _, _, _)
split_loop(h, self, new_group, indexes, j) ==
  IF ~ok(h) \/ indexes = <<>> THEN h
  ELSE IF ~dict_has(h.channel_elems[self], Head(indexes)) THEN raise(h, "KeyError")
  ELSE split_loop(
         pop(add_all(h, new_group, dict_get(h.channel_elems[self], Head(indexes)), j),
             self, Head(indexes)),
         self, new_group, Tail(indexes), j + 1)

\* _split_a_new_group after new_group = BaseChannelGroup(), which h0.ret holds
split_into(h0, self, indexes) ==
  return(_reindex(split_loop(h0, self, h0.ret[1], indexes, 0), self), h0.ret)

_split_a_new_group(h, self, indexes) ==
  IF ~ok(h) THEN h ELSE split_into(BaseChannelGroup_init(h), self, indexes)

\* split_group, the loop over nums; new_groups is the list built so far
RECURSIVE split_group_loop(_, _, _, _)
RECURSIVE split_group_append(_, _, _, _)
split_group_loop(h, grp, nums, new_groups) ==
  IF ~ok(h) THEN h
  ELSE IF nums = <<>> THEN return(h, new_groups)
  ELSE split_group_append(_split_a_new_group(h, grp, range0(Head(nums))),
                          grp, Tail(nums), new_groups)

\* new_groups.append(new_group), new_group being what h1.ret holds
split_group_append(h1, grp, nums, new_groups) ==
  IF ~ok(h1) THEN h1 ELSE split_group_loop(h1, grp, nums, new_groups \o h1.ret)

\* split_group without the return of [group] for a single size
split_group_always(h, grp, nums) ==
  IF ~ok(h) THEN h
  ELSE IF sum(nums) # len(h, grp) THEN raise(h, "AssertionError")
  ELSE split_group_loop(h, grp, nums, <<>>)

split_group(h, grp, nums) ==
  IF ~ok(h) THEN h
  ELSE IF Len(nums) = 1 THEN return(h, <<grp>>)
  ELSE IF sum(nums) # len(h, grp) THEN raise(h, "AssertionError")
  ELSE split_group_loop(h, grp, nums, <<>>)

\* union_two_groups that adds every bucket of group2 to bucket 0 of group1
RECURSIVE union_two_loop_first(_, _, _, _)
union_two_loop_first(h, group1, group2, keys) ==
  IF ~ok(h) \/ keys = <<>> THEN h
  ELSE IF ~dict_has(h.channel_elems[group2], Head(keys)) THEN raise(h, "KeyError")
  ELSE union_two_loop_first(
         add_all(h, group1, dict_get(h.channel_elems[group2], Head(keys)), 0),
         group1, group2, Tail(keys))

\* union_two_groups, the loop over the keys of group1 in the dict's order
RECURSIVE union_two_loop(_, _, _, _)
union_two_loop(h, group1, group2, keys) ==
  IF ~ok(h) \/ keys = <<>> THEN h
  ELSE IF ~dict_has(h.channel_elems[group2], Head(keys)) THEN raise(h, "KeyError")
  ELSE union_two_loop(
         add_all(h, group1, dict_get(h.channel_elems[group2], Head(keys)), Head(keys)),
         group1, group2, Tail(keys))

\* union_two_groups without the assertion on the two lengths
union_two_groups_unchecked(h, group1, group2) ==
  IF ~ok(h) THEN h
  ELSE IF group1 = group2 THEN return(h, <<group1>>)
  ELSE return(union_two_loop(h, group1, group2, dict_keys(h.channel_elems[group1])),
              <<group1>>)

\* union_two_groups that leaves bucket 0 of group2 where it is
union_two_groups_skips(h, group1, group2) ==
  IF ~ok(h) THEN h
  ELSE IF group1 = group2 THEN return(h, <<group1>>)
  ELSE IF len(h, group1) # len(h, group2) THEN raise(h, "AssertionError")
  ELSE return(union_two_loop(h, group1, group2, Tail(dict_keys(h.channel_elems[group1]))),
              <<group1>>)

union_two_groups(h, group1, group2) ==
  IF ~ok(h) THEN h
  ELSE IF group1 = group2 THEN return(h, <<group1>>)
  ELSE IF len(h, group1) # len(h, group2) THEN raise(h, "AssertionError")
  ELSE return(union_two_loop(h, group1, group2, dict_keys(h.channel_elems[group1])),
              <<group1>>)

\* union_groups that hands union_two_groups its two groups in the other
\* order: the group that survives is the last of the list
RECURSIVE union_groups_loop_last(_, _)
union_groups_loop_last(h, groups) ==
  IF ~ok(h) \/ groups = <<>> THEN h
  ELSE union_groups_loop_last(union_two_groups(h, Head(groups), h.ret[1]), Tail(groups))

\* union_groups, the loop over groups[1:]; h.ret holds union_group
RECURSIVE union_groups_loop(_, _)
union_groups_loop(h, groups) ==
  IF ~ok(h) \/ groups = <<>> THEN h
  ELSE union_groups_loop(union_two_groups(h, h.ret[1], Head(groups)), Tail(groups))

union_groups(h, groups) ==
  IF ~ok(h) THEN h
  ELSE IF ~(Len(groups) > 1) THEN raise(h, "AssertionError")
  ELSE union_groups_loop(return(h, <<groups[1]>>), Tail(groups))

\* -------------------------------------------------------- ChannelTensor
\* [ChannelElement(i) for i in range(num_channel_elems)]
RECURSIVE new_elems_loop(_, _, _)
new_elems_loop(h, i, num_channel_elems) ==
  IF ~ok(h) \/ i >= num_channel_elems THEN h
  ELSE new_elems_loop(ChannelElement_init(h, i), i + 1, num_channel_elems)

\* for channel_elem in self.channel_elems: group.add_channel_elem(...)
RECURSIVE tensor_init_loop(_, _, _)
tensor_init_loop(h, grp, elems) ==
  IF ~ok(h) \/ elems = <<>> THEN h
  ELSE tensor_init_loop(
         add_channel_elem(h, grp, Head(elems), h.index_in_channel_tensor[Head(elems)]),
         grp, Tail(elems))

\* ChannelTensor.__init__ after group = BaseChannelGroup(), which h0.ret
\* holds; the new elements are those after the first existing ones
tensor_fill(h1, grp, elems) == return(tensor_init_loop(h1, grp, elems), elems)

tensor_new(h0, first, num_channel_elems) ==
  tensor_fill(new_elems_loop(h0, 0, num_channel_elems), h0.ret[1],
              [n \in 1..num_channel_elems |-> first + n])

\* ChannelTensor(num_channel_elems); ret is the list channel_elems
ChannelTensor_init(h, num_channel_elems) ==
  IF ~ok(h) THEN h
  ELSE tensor_new(BaseChannelGroup_init(h), Len(h.group), num_channel_elems)

\* group_dict that also starts a block at an equal bucket index
RECURSIVE group_dict_loop_strict(_, _, _, _, _, _, _)
group_dict_loop_strict(h, t, i, groups, current_group, current_group_idx, start) ==
  IF i >= Len(t)
  THEN Append(groups, [start |-> start, end |-> Len(t), grp |-> current_group])
  ELSE IF i = 0
  THEN group_dict_loop_strict(h, t, 1, groups, h.group[t[1]], h.index_in_group[t[1]], 0)
  ELSE IF current_group # h.group[t[i + 1]]
          \/ current_group_idx >= h.index_in_group[t[i + 1]]
  THEN group_dict_loop_strict(h, t, i + 1,
         Append(groups, [start |-> start, end |-> i, grp |-> current_group]),
         h.group[t[i + 1]], h.index_in_group[t[i + 1]], i)
  ELSE group_dict_loop_strict(h, t, i + 1, groups, current_group,
                              h.index_in_group[t[i + 1]], start)

\* group_dict, the loop over range(len(self)); groups is the dict built so
\* far, as a sequence of [start, end, grp] in insertion order
RECURSIVE group_dict_loop(_, _, _, _, _, _, _)
group_dict_loop(h, t, i, groups, current_group, current_group_idx, start) ==
  IF i >= Len(t)
  THEN Append(groups, [start |-> start, end |-> Len(t), grp |-> current_group])
  ELSE IF i = 0
  THEN group_dict_loop(h, t, 1, groups, h.group[t[1]], h.index_in_group[t[1]], 0)
  ELSE IF current_group # h.group[t[i + 1]]
          \/ current_group_idx > h.index_in_group[t[i + 1]]
  THEN group_dict_loop(h, t, i + 1,
         Append(groups, [start |-> start, end |-> i, grp |-> current_group]),
         h.group[t[i + 1]], h.index_in_group[t[i + 1]], i)
  ELSE group_dict_loop(h, t, i + 1, groups, current_group,
                       h.index_in_group[t[i + 1]], start)

\* group_dict of a tensor with at least one element (with none, line 293
\* reads current_group before it is bound: UnboundLocalError)
group_dict(h, t) == group_dict_loop(h, t, 0, <<>>, None, -1, 0)

\* list(group_dict.keys())
group_dict_keys(h, t) ==
  [n \in DOMAIN group_dict(h, t) |-> <<group_dict(h, t)[n].start, group_dict(h, t)[n].end>>]

\* (start, end) in group_dict
group_dict_has(h, t, start, end) ==
  \E n \in DOMAIN group_dict(h, t) :
    group_dict(h, t)[n].start = start /\ group_dict(h, t)[n].end = end

\* group_dict[(start, end)]
group_dict_get(h, t, start, end) ==
  group_dict(h, t)[CHOOSE n \in DOMAIN group_dict(h, t) :
                     group_dict(h, t)[n].start = start
                     /\ group_dict(h, t)[n].end = end].grp

\* _index2points: the sorted list of the distinct starts and ends
RECURSIVE sorted(_)
sorted(points) ==
  IF points = {} THEN <<>>
  ELSE <<CHOOSE x \in points : \A y \in points : x <= y>>
         \o sorted(points \ {CHOOSE x \in points : \A y \in points : x <= y})

_index2points(indexes) ==
  sorted(UNION {UNION {{indexes[n][m][1], indexes[n][m][2]} : m \in DOMAIN indexes[n]}
                 : n \in DOMAIN indexes})

\* _points2num: start is 0, not indexes[0]
RECURSIVE points2num_loop(_, _, _)
points2num_loop(ends, start, nums) ==
  IF ends = <<>> THEN nums
  ELSE points2num_loop(Tail(ends), Head(ends), Append(nums, Head(ends) - start))

_points2num(indexes) ==
  IF Len(indexes) = 0 THEN <<>> ELSE points2num_loop(Tail(indexes), 0, <<>>)

\* align_groups_with_nums, the while loop: [i, new_nums, exc]; nums[i] past
\* the end of nums is an IndexError
RECURSIVE take_nums(_, _, _, _, _)
take_nums(nums, i, start_, end, new_nums) ==
  IF ~(start_ < end) THEN [i |-> i, new_nums |-> new_nums, exc |-> NoExc]
  ELSE IF i >= Len(nums) THEN [i |-> i, new_nums |-> new_nums, exc |-> "IndexError"]
  ELSE take_nums(nums, i + 1, start_ + nums[i + 1], end, Append(new_nums, nums[i + 1]))

\* align_groups_with_nums, the loop over the keys of the group_dict taken
\* when the loop starts; line 270 takes group_dict again for every block
RECURSIVE align_groups_loop(_, _, _, _, _)
RECURSIVE align_block(_, _, _, _, _)
align_groups_loop(h, t, nums, blocks, i) ==
  IF ~ok(h) \/ blocks = <<>> THEN h
  ELSE align_block(h, t, nums, blocks,
                   take_nums(nums, i, Head(blocks)[1], Head(blocks)[2], <<>>))

\* line 270-271 for the block Head(blocks), w being what the while loop left
align_block(h, t, nums, blocks, w) ==
  IF w.exc # NoExc THEN raise(h, w.exc)
  ELSE IF ~group_dict_has(h, t, Head(blocks)[1], Head(blocks)[2])
  THEN raise(h, "KeyError")
  ELSE align_groups_loop(
         split_group(h, group_dict_get(h, t, Head(blocks)[1], Head(blocks)[2]),
                     w.new_nums),
         t, nums, Tail(blocks), w.i)

align_groups_with_nums(h, t, nums) ==
  IF ~ok(h) THEN h ELSE align_groups_loop(h, t, nums, group_dict_keys(h, t), 0)

RECURSIVE align_tensors_loop(_, _, _)
align_tensors_loop(h, tensors_, nums) ==
  IF ~ok(h) \/ tensors_ = <<>> THEN h
  ELSE align_tensors_loop(align_groups_with_nums(h, Head(tensors_), nums),
                          Tail(tensors_), nums)

\* align_tensors that aligns only for three or more blocks
align_to_three(h, tensors_, nums) ==
  IF Len(nums) > 2 THEN align_tensors_loop(h, tensors_, nums) ELSE h

\* align_tensors, line 313-315
align_to(h, tensors_, nums) ==
  IF Len(nums) > 1 THEN align_tensors_loop(h, tensors_, nums) ELSE h

\* align_tensors without the assertion on the lengths of the tensors
align_tensors_unchecked(h, tensors_) ==
  IF ~ok(h) THEN h
  ELSE IF ~(Len(tensors_) >= 2) THEN raise(h, "AssertionError")
  ELSE IF Len(tensors_[1]) = 0 THEN raise(h, "UnboundLocalError")
  ELSE align_to(h, tensors_,
         _points2num(_index2points(
           [n \in DOMAIN tensors_ |-> group_dict_keys(h, tensors_[n])])))

\* align_tensors(*tensors); a tensor is its list channel_elems
align_tensors(h, tensors_) ==
  IF ~ok(h) THEN h
  ELSE IF ~(Len(tensors_) >= 2) THEN raise(h, "AssertionError")
  ELSE IF \E n \in DOMAIN tensors_ : Len(tensors_[n]) # Len(tensors_[1])
  THEN raise(h, "AssertionError")
  ELSE IF Len(tensors_[1]) = 0 THEN raise(h, "UnboundLocalError")
  ELSE align_to(h, tensors_,
         _points2num(_index2points(
           [n \in DOMAIN tensors_ |-> group_dict_keys(h, tensors_[n])])))

\* union that adds every element of the bucket of ch2 to bucket 0 of the
\* group of ch1
RECURSIVE union_move_first(_, _, _)
union_move_first(h, ch1, elems) ==
  IF ~ok(h) \/ elems = <<>> THEN h
  ELSE IF h.group[ch1] = None THEN raise(h, "AttributeError")
  ELSE union_move_first(add_channel_elem(h, h.group[ch1], Head(elems), 0),
                        ch1, Tail(elems))

\* union that moves the elements without registering their new group
RECURSIVE union_move_unregistered(_, _, _)
union_move_unregistered(h, ch1, elems) ==
  IF ~ok(h) \/ elems = <<>> THEN h
  ELSE IF h.group[ch1] = None THEN raise(h, "AttributeError")
  ELSE union_move_unregistered(
         _add_channel_info(remove_if_grouped(h, Head(elems)), h.group[ch1],
                           Head(elems), h.index_in_group[ch1]),
         ch1, Tail(elems))

\* union that moves only the first element of the bucket of ch2
union_move_one(h, ch1, elems) ==
  IF ~ok(h) \/ elems = <<>> THEN h
  ELSE IF h.group[ch1] = None THEN raise(h, "AttributeError")
  ELSE add_channel_elem(h, h.group[ch1], Head(elems), h.index_in_group[ch1])

\* union, line 324-325: every element of the bucket of ch2 is added to the
\* bucket of ch1; ch1.group and ch1.index_in_group are read for each one
RECURSIVE union_move(_, _, _)
union_move(h, ch1, elems) ==
  IF ~ok(h) \/ elems = <<>> THEN h
  ELSE IF h.group[ch1] = None THEN raise(h, "AttributeError")
  ELSE union_move(add_channel_elem(h, h.group[ch1], Head(elems), h.index_in_group[ch1]),
                  ch1, Tail(elems))

\* union, the loop over zip(self.channel_elems, tensor1.channel_elems)
RECURSIVE union_loop(_, _, _, _)
union_loop(h, self, tensor1, n) ==
  IF ~ok(h) \/ n > Len(self) \/ n > Len(tensor1) THEN h
  ELSE IF h.group[self[n]] = None \/ h.group[tensor1[n]] = None
  THEN raise(h, "AssertionError")
  ELSE IF ~dict_has(h.channel_elems[h.group[tensor1[n]]], h.index_in_group[tensor1[n]])
  THEN raise(h, "KeyError")
  ELSE union_loop(
         union_move(h, self[n],
                    dict_get(h.channel_elems[h.group[tensor1[n]]],
                             h.index_in_group[tensor1[n]])),
         self, tensor1, n + 1)

union(h, self, tensor1) ==
  union_loop(align_tensors(h, <<self, tensor1>>), self, tensor1, 1)

\* union with the assertion of line 323 reported under a name of its own
RECURSIVE union_loop_named(_, _, _, _)
union_loop_named(h, self, tensor1, n) ==
  IF ~ok(h) \/ n > Len(self) \/ n > Len(tensor1) THEN h
  ELSE IF h.group[self[n]] = None \/ h.group[tensor1[n]] = None
  THEN raise(h, "AssertionError: group is None")
  ELSE IF ~dict_has(h.channel_elems[h.group[tensor1[n]]], h.index_in_group[tensor1[n]])
  THEN raise(h, "KeyError")
  ELSE union_loop_named(
         union_move(h, self[n],
                    dict_get(h.channel_elems[h.group[tensor1[n]]],
                             h.index_in_group[tensor1[n]])),
         self, tensor1, n + 1)

union_named(h, self, tensor1) ==
  union_loop_named(align_tensors(h, <<self, tensor1>>), self, tensor1, 1)

\* expand that hands out the new elements from the end of the new tensor
RECURSIVE expand_inner_reversed(_, _, _, _, _, _, _)
expand_inner_reversed(h, expanded_tensor, grp, ch, i, ratio, j) ==
  IF ~ok(h) \/ j >= ratio THEN h
  ELSE expand_inner_reversed(
         add_channel_elem(h, grp, expanded_tensor[Len(expanded_tensor) - (i * ratio + j)],
                          h.index_in_group[ch]),
         expanded_tensor, grp, ch, i, ratio, j + 1)

\* expand that takes the position i of ch for its bucket key
RECURSIVE expand_inner_position(_, _, _, _, _, _, _)
expand_inner_position(h, expanded_tensor, grp, ch, i, ratio, j) ==
  IF ~ok(h) \/ j >= ratio THEN h
  ELSE expand_inner_position(
         add_channel_elem(h, grp, expanded_tensor[i * ratio + j + 1], i),
         expanded_tensor, grp, ch, i, ratio, j + 1)

\* expand, the loop over j in range(0, ratio) for the element ch at i
RECURSIVE expand_inner(_, _, _, _, _, _, _)
expand_inner(h, expanded_tensor, grp, ch, i, ratio, j) ==
  IF ~ok(h) \/ j >= ratio THEN h
  ELSE expand_inner(add_channel_elem(h, grp, expanded_tensor[i * ratio + j + 1],
                                     h.index_in_group[ch]),
                    expanded_tensor, grp, ch, i, ratio, j + 1)

\* expand, the loop over enumerate(self.channel_elems)
RECURSIVE expand_loop(_, _, _, _, _)
expand_loop(h, self, expanded_tensor, ratio, i) ==
  IF ~ok(h) \/ i >= Len(self) THEN h
  ELSE IF h.group[self[i + 1]] = None THEN raise(h, "AssertionError")
  ELSE expand_loop(
         expand_inner(h, expanded_tensor, h.group[self[i + 1]], self[i + 1], i, ratio, 0),
         self, expanded_tensor, ratio, i + 1)

\* expand after expanded_tensor = ChannelTensor(...), which h1.ret holds
expand_into(h1, self, ratio) ==
  return(expand_loop(h1, self, h1.ret, ratio, 0), h1.ret)

expand(h, self, ratio) ==
  IF ~ok(h) THEN h ELSE expand_into(ChannelTensor_init(h, Len(self) * ratio), self, ratio)

\* ------------------------------------------------------------ the state
VARIABLES
  channel_elems,            \* group -> its dict channel_elems
  group,                    \* element -> its group, or None
  index_in_group,           \* element -> its bucket key, or -1
  index_in_channel_tensor,  \* element -> its position in its tensor
  tensors,                  \* the ChannelTensors: each its list channel_elems
  exc,                      \* the exception that ended the run, or NoExc
  hist,                     \* the last top-level call: arguments, heap before, result
  steps,                    \* number of top-level calls made
  num_samples,              \* AutoSlim.num_samples
  _optim_wrapper_count_status_reinitialized,  \* the AutoSlim's flag of that name
  current_choice,           \* the choice applied to the mutator's channel group
  calls                     \* per train_step, the calls it made, in order

\* the state of the AutoSlim algorithm
train_vars ==
  <<num_samples, _optim_wrapper_count_status_reinitialized, current_choice, calls>>

vars == <<channel_elems, group, index_in_group, index_in_channel_tensor,
          tensors, exc, hist, steps, train_vars>>

\* the heap the next call starts from
Heap ==
  [channel_elems |-> channel_elems, group |-> group,
   index_in_group |-> index_in_group,
   index_in_channel_tensor |-> index_in_channel_tensor,
   exc |-> exc, ret |-> <<>>]

NoChain == [on |-> FALSE, pre |-> EmptyHeap, grp |-> None, nums |-> <<>>]

NoCall ==
  [op |-> "init", grp |-> None, groups |-> <<>>, elem |-> 0, index |-> 0,
   nums |-> <<>>, ts |-> <<>>, ratio |-> 0, pre |-> EmptyHeap, ret |-> <<>>,
   chain |-> NoChain, raw |-> FALSE]

\* the heap a call leaves becomes the state; an exception ends the run
Commit(h) ==
  /\ channel_elems' = h.channel_elems
  /\ group' = h.group
  /\ index_in_group' = h.index_in_group
  /\ index_in_channel_tensor' = h.index_in_channel_tensor
  /\ exc' = h.exc
  /\ steps' = steps + 1
  /\ UNCHANGED train_vars

\* raw: add_channel_elem or remove_from_group has been called directly
Record(call, h) ==
  hist' = [call EXCEPT
             !.pre = Heap,
             !.ret = IF ok(h) THEN h.ret ELSE <<>>,
             !.raw = hist.raw \/ call.op \in {"add_channel_elem", "remove_from_group"}]

\* a top-level call and the heap h it leaves
Call(call, h) == Commit(h) /\ Record(call, h) /\ UNCHANGED tensors

\* a top-level call that returns a new tensor, kept when the call returns
CallNew(call, h) ==
  /\ Commit(h)
  /\ Record(call, h)
  /\ tensors' = IF ok(h) THEN Append(tensors, h.ret) ELSE tensors

Running == exc = NoExc /\ steps < MaxSteps

Groups == 1..Len(channel_elems)

Elems == 1..Len(group)

\* the tensors built one after the other, as the program's start
RECURSIVE build(_, _, _)
RECURSIVE build_keep(_, _, _)
build(h, ts, lens) ==
  IF lens = <<>> THEN [h |-> h, ts |-> ts]
  ELSE build_keep(ChannelTensor_init(h, Head(lens)), ts, Tail(lens))

build_keep(h1, ts, lens) == build(h1, Append(ts, h1.ret), lens)

\* AutoSlim.__init__: the flag starts False; the mutator it builds has some
\* choice applied
AutoSlimNew(n, choice) ==
  /\ num_samples = n
  /\ _optim_wrapper_count_status_reinitialized = FALSE
  /\ current_choice = choice
  /\ calls = <<>>

StartWith(s) ==
  /\ AutoSlimNew(2, MaxChoice)
  /\ channel_elems = s.h.channel_elems
  /\ group = s.h.group
  /\ index_in_group = s.h.index_in_group
  /\ index_in_channel_tensor = s.h.index_in_channel_tensor
  /\ tensors = s.ts
  /\ exc = NoExc
  /\ hist = NoCall
  /\ steps = 0

Start(lens) == StartWith(build(EmptyHeap, <<>>, lens))

\* the lists nums tried on a group: every list of at most MaxNums sizes in
\* 0..MaxLen whose sum is the group's length or one off it
NumsFor(n) ==
  {nums \in UNION {[1..k -> 0..MaxLen] : k \in 1..MaxNums} :
     sum(nums) \in (n - 1)..(n + 1)}

\* ---------------------------------------------------- top-level calls
\* ChannelTensor(num_channel_elems)
Construct(num_channel_elems) ==
  /\ Running
  /\ Len(tensors) < MaxTensors
  /\ Len(group) + num_channel_elems <= MaxElems
  /\ CallNew([NoCall EXCEPT !.op = "ChannelTensor", !.index = num_channel_elems],
             ChannelTensor_init(Heap, num_channel_elems))

\* BaseChannelGroup.split_group(grp, nums)
SplitGroup(grp, nums) ==
  /\ Running
  /\ Call([NoCall EXCEPT !.op = "split_group", !.grp = grp, !.nums = nums],
          split_group(Heap, grp, nums))

\* ChannelTensor.align_tensors(*ts); ts holds indexes into tensors
AlignTensors(ts) ==
  /\ Running
  /\ Call([NoCall EXCEPT !.op = "align_tensors", !.ts = ts],
          align_tensors(Heap, [n \in DOMAIN ts |-> tensors[ts[n]]]))

\* tensors[a].union(tensors[b])
Union(a, b) ==
  /\ Running
  /\ Call([NoCall EXCEPT !.op = "union", !.ts = <<a, b>>],
          union(Heap, tensors[a], tensors[b]))

\* tensors[a].expand(ratio); the new tensor is kept
Expand(a, ratio) ==
  /\ Running
  /\ Len(tensors) < MaxTensors
  /\ Len(group) + Len(tensors[a]) * ratio <= MaxElems
  /\ CallNew([NoCall EXCEPT !.op = "expand", !.ts = <<a>>, !.ratio = ratio],
             expand(Heap, tensors[a], ratio))

\* grp.add_channel_elem(channel_elem, index)
AddChannelElem(grp, channel_elem, index) ==
  /\ Running
  /\ Call([NoCall EXCEPT !.op = "add_channel_elem", !.grp = grp,
                           !.elem = channel_elem, !.index = index],
          add_channel_elem(Heap, grp, channel_elem, index))

\* channel_elem.remove_from_group()
RemoveFromGroup(channel_elem) ==
  /\ Running
  /\ Call([NoCall EXCEPT !.op = "remove_from_group", !.elem = channel_elem],
          remove_from_group(Heap, channel_elem))

\* BaseChannelGroup.union_two_groups(group1, group2)
UnionTwoGroups(group1, group2) ==
  /\ Running
  /\ Call([NoCall EXCEPT !.op = "union_two_groups", !.groups = <<group1, group2>>],
          union_two_groups(Heap, group1, group2))

\* BaseChannelGroup.union_groups(groups); chain remembers the split_group
\* call whose returned list is handed over
UnionGroups(groups) ==
  /\ Running
  /\ Call([NoCall EXCEPT
             !.op = "union_groups", !.groups = groups,
             !.chain = IF hist.op = "split_group" /\ groups = hist.ret
                       THEN [on |-> TRUE, pre |-> hist.pre,
                             grp |-> hist.grp, nums |-> hist.nums]
                       ELSE NoChain],
          union_groups(Heap, groups))

\* grp._reindex()
Reindex(grp) ==
  /\ Running
  /\ Call([NoCall EXCEPT !.op = "_reindex", !.grp = grp], _reindex(Heap, grp))

\* ------------------------------------------------------ specifications
\* the tensors a run starts with
InitLens == {lens \in [1..2 -> 1..MaxLen] : lens[1] <= lens[2]}

\* the lists of tensors handed to align_tensors: any one, any two (also a
\* tensor with itself), any three distinct ones
TensorLists ==
  LET T == 1..Len(tensors) IN
  {<<a>> : a \in T} \cup {<<a, b>> : a, b \in T}
    \cup {ts \in [1..3 -> T] : ts[1] # ts[2] /\ ts[2] # ts[3] /\ ts[1] # ts[3]}

Init == \E lens \in InitLens : Start(lens)

Next ==
  \/ \E n \in 0..MaxLen : Construct(n)
  \/ \E g \in Groups : \E nums \in NumsFor(Len(channel_elems[g])) : SplitGroup(g, nums)
  \/ \E ts \in TensorLists : AlignTensors(ts)
  \/ \E a, b \in 1..Len(tensors) : Union(a, b)
  \/ \E a \in 1..Len(tensors) : \E r \in 0..MaxRatio : Expand(a, r)

Spec == Init /\ [][Next]_vars

\* The group interface alone: groups are split and united directly.
\* the lists handed to union_groups: the list of groups the last call
\* returned, any one group, any two
GroupLists ==
  {<<a>> : a \in Groups} \cup {<<a, b>> : a, b \in Groups}
    \cup (IF hist.op \in {"ChannelTensor", "expand"} THEN {} ELSE {hist.ret})

\* three tensors of one length
InitUnionLens == {<<n, n, n>> : n \in 1..MaxLen}

InitUnion == \E lens \in InitUnionLens : Start(lens)

NextUnion ==
  \/ \E g \in Groups : \E nums \in NumsFor(Len(channel_elems[g])) : SplitGroup(g, nums)
  \/ \E a, b \in Groups : UnionTwoGroups(a, b)
  \/ \E gs \in GroupLists : UnionGroups(gs)

SpecUnion == InitUnion /\ [][NextUnion]_vars

\* The group interface with add_channel_elem and remove_from_group called
\* directly on any element, group and bucket key.
NextGroup ==
  \/ \E g \in Groups : \E e \in Elems : \E k \in 0..MaxKey : AddChannelElem(g, e, k)
  \/ \E e \in Elems : RemoveFromGroup(e)
  \/ \E a, b \in Groups : UnionTwoGroups(a, b)
  \/ \E g \in Groups : \E nums \in NumsFor(Len(channel_elems[g])) : SplitGroup(g, nums)

SpecGroup == Init /\ [][NextGroup]_vars

\* Two tensors of one length, up to one more than MaxLen, whose groups are
\* split, aligned, united and expanded.
InitAlignLens == {<<n, n>> : n \in 2..(MaxLen + 1)}

InitAlign == \E lens \in InitAlignLens : Start(lens)

NextAlign ==
  \/ \E g \in Groups : \E nums \in NumsFor(Len(channel_elems[g])) : SplitGroup(g, nums)
  \/ \E ts \in TensorLists : AlignTensors(ts)
  \/ \E a, b \in 1..Len(tensors) : Union(a, b)
  \/ \E a \in 1..Len(tensors) : \E r \in 0..MaxRatio : Expand(a, r)

SpecAlign == InitAlign /\ [][NextAlign]_vars

\* Every operation of groups, elements and tensors, in any order.
NextAll ==
  \/ \E n \in 0..MaxLen : Construct(n)
  \/ \E g \in Groups : \E nums \in NumsFor(Len(channel_elems[g])) : SplitGroup(g, nums)
  \/ \E ts \in TensorLists : AlignTensors(ts)
  \/ \E a, b \in 1..Len(tensors) : Union(a, b)
  \/ \E a \in 1..Len(tensors) : \E r \in 0..MaxRatio : Expand(a, r)
  \/ \E g \in Groups : \E e \in Elems : \E k \in 0..MaxKey : AddChannelElem(g, e, k)
  \/ \E e \in Elems : RemoveFromGroup(e)
  \/ \E a, b \in Groups : UnionTwoGroups(a, b)
  \/ \E gs \in GroupLists : UnionGroups(gs)

\* two tensors of at most MaxLen + 1 elements together
InitAllLens == {lens \in InitLens : lens[1] + lens[2] <= MaxLen + 1}

InitAll == \E lens \in InitAllLens : Start(lens)

SpecAll == InitAll /\ [][NextAll]_vars

\* One tensor that is expanded, with ratios up to one more than MaxRatio, next
\* to tensors constructed later.
InitExpandLens == {<<n>> : n \in 1..MaxLen}

InitExpand == \E lens \in InitExpandLens : Start(lens)

NextExpand ==
  \/ \E n \in 0..MaxLen : Construct(n)
  \/ \E a \in 1..Len(tensors) : \E r \in 0..(MaxRatio + 1) : Expand(a, r)

SpecExpand == InitExpand /\ [][NextExpand]_vars

\* _reindex called on groups in any state that add_channel_elem and
\* remove_from_group can build: two tensors, the first of which may be empty
\* and then has a group with no bucket, and bucket keys up to one more than
\* MaxKey.
InitReindexLens ==
  {lens \in [1..2 -> 0..MaxLen] :
     lens[1] <= lens[2] /\ lens[2] >= 1 /\ lens[1] + lens[2] <= MaxLen + 1}

InitReindex == \E lens \in InitReindexLens : Start(lens)

NextReindex ==
  \/ \E g \in Groups : \E e \in Elems : \E k \in 0..(MaxKey + 1) : AddChannelElem(g, e, k)
  \/ \E e \in Elems : RemoveFromGroup(e)
  \/ \E g \in Groups : Reindex(g)

SpecReindex == InitReindex /\ [][NextReindex]_vars

\* Tensors that are constructed, aligned, united and split into positive
\* sizes, and never expanded.
PositiveNumsFor(n) == {nums \in NumsFor(n) : \A m \in DOMAIN nums : nums[m] > 0}

NextNoExpand ==
  \/ \E n \in 0..MaxLen : Construct(n)
  \/ \E g \in Groups : \E nums \in PositiveNumsFor(Len(channel_elems[g])) :
       SplitGroup(g, nums)
  \/ \E ts \in TensorLists : AlignTensors(ts)
  \/ \E a, b \in 1..Len(tensors) : Union(a, b)

SpecNoExpand == Init /\ [][NextNoExpand]_vars

\* ------------------------------------------------------------- AutoSlim
\* The AutoSlim algorithm m is a record:
\* num_samples                                 AutoSlim.num_samples
\* _optim_wrapper_count_status_reinitialized   the flag of that name
\* current_choice    the choice applied to the mutator's channel group
\* calls             per train_step, the calls it made on the mutator and
\*                   on the optim_wrapper, in order
\* The forward passes, the loss parsing and the calls on the optim_wrapper
\* are taken to return.
Module ==
  [num_samples |-> num_samples,
   _optim_wrapper_count_status_reinitialized |->
     _optim_wrapper_count_status_reinitialized,
   current_choice |-> current_choice,
   calls |-> calls]

Choices == 1..MaxChoice

\* the structures of the largest and of the smallest choice
max_structure == MaxChoice

min_structure == 1

\* the call op(arg) made by the train_step under way; model is the self
\* it was made for
called(m, op, arg, model) ==
  [m EXCEPT !.calls[Len(m.calls)] =
     Append(@, [op |-> op, arg |-> arg, model |-> model])]

apply_subnet(m, config) == [m EXCEPT !.current_choice = config]

\* subnet is what mutator.sample_subnet() has drawn
set_sampled_subnet(m, subnet) ==
  called(apply_subnet(m, subnet), "set_sampled_subnet", subnet, "AutoSlim")

set_max_subnet(m) ==
  called(apply_subnet(m, max_structure), "set_max_subnet", max_structure, "AutoSlim")

set_min_subnet(m) ==
  called(apply_subnet(m, min_structure), "set_min_subnet", min_structure, "AutoSlim")

\* optim_wrapper.update_params on the losses of the subnet applied now
update_params(m, model) == called(m, "update_params", m.current_choice, model)

reinitialize_optim_wrapper_count_status(m, model, accumulative_counts) ==
  called(m, "reinitialize_optim_wrapper_count_status", accumulative_counts, model)

distill_step(m) == update_params(m, "AutoSlim")

\* the loop over range(num_samples); samples are the draws of sample_subnet
RECURSIVE sample_loop(_, _, _)
sample_loop(m, samples, sample_idx) ==
  IF sample_idx >= m.num_samples THEN m
  ELSE sample_loop(distill_step(set_sampled_subnet(m, samples[sample_idx + 1])),
                   samples, sample_idx + 1)

\* train_step from the max subnet on
train_subnets(m, samples) ==
  sample_loop(distill_step(set_min_subnet(update_params(set_max_subnet(m), "AutoSlim"))),
              samples, 0)

\* a train_step that re-initialises the count status and leaves the flag
train_step_flag_left(m, samples) ==
  train_subnets(
    IF ~m._optim_wrapper_count_status_reinitialized
    THEN reinitialize_optim_wrapper_count_status(
           [m EXCEPT !.calls = Append(@, <<>>)], "AutoSlim", m.num_samples + 2)
    ELSE [m EXCEPT !.calls = Append(@, <<>>)],
    samples)

\* AutoSlim.train_step
train_step(m, samples) ==
  train_subnets(
    IF ~m._optim_wrapper_count_status_reinitialized
    THEN [reinitialize_optim_wrapper_count_status(
            [m EXCEPT !.calls = Append(@, <<>>)], "AutoSlim", m.num_samples + 2)
          EXCEPT !._optim_wrapper_count_status_reinitialized = TRUE]
    ELSE [m EXCEPT !.calls = Append(@, <<>>)],
    samples)

\* the property of AutoSlimDDP: the flag read from and written to self.module
ddp_get_reinitialized(m) == m._optim_wrapper_count_status_reinitialized

ddp_set_reinitialized(m, val) ==
  [m EXCEPT !._optim_wrapper_count_status_reinitialized = val]

ddp_distill_step(m) == update_params(m, "AutoSlimDDP")

RECURSIVE ddp_sample_loop(_, _, _)
ddp_sample_loop(m, samples, sample_idx) ==
  IF sample_idx >= m.num_samples THEN m
  ELSE ddp_sample_loop(
         ddp_distill_step(set_sampled_subnet(m, samples[sample_idx + 1])),
         samples, sample_idx + 1)

ddp_train_subnets(m, samples) ==
  ddp_sample_loop(
    ddp_distill_step(set_min_subnet(update_params(set_max_subnet(m), "AutoSlimDDP"))),
    samples, 0)

\* AutoSlimDDP.train_step on the wrapped module m
ddp_train_step(m, samples) ==
  ddp_train_subnets(
    IF ~ddp_get_reinitialized(m)
    THEN ddp_set_reinitialized(
           reinitialize_optim_wrapper_count_status(
             [m EXCEPT !.calls = Append(@, <<>>)], "AutoSlimDDP", m.num_samples + 2),
           TRUE)
    ELSE [m EXCEPT !.calls = Append(@, <<>>)],
    samples)

\* the module a train_step leaves becomes the state
CommitTrain(m) ==
  /\ num_samples' = m.num_samples
  /\ _optim_wrapper_count_status_reinitialized' =
       m._optim_wrapper_count_status_reinitialized
  /\ current_choice' = m.current_choice
  /\ calls' = m.calls
  /\ steps' = steps + 1
  /\ UNCHANGED <<channel_elems, group, index_in_group, index_in_channel_tensor,
                 tensors, exc, hist>>

\* the draws of sample_subnet in one train_step
Samples == [1..num_samples -> Choices]

TrainStep(samples) ==
  /\ Running
  /\ CommitTrain(train_step(Module, samples))

DDPTrainStep(samples) ==
  /\ Running
  /\ CommitTrain(ddp_train_step(Module, samples))

\* An AutoSlim of any num_samples up to MaxSamples, trained step after step,
\* directly or through its AutoSlimDDP wrapper.
InitTrain ==
  /\ \E n \in 0..MaxSamples : \E choice \in Choices : AutoSlimNew(n, choice)
  /\ channel_elems = <<>>
  /\ group = <<>>
  /\ index_in_group = <<>>
  /\ index_in_channel_tensor = <<>>
  /\ tensors = <<>>
  /\ exc = NoExc
  /\ hist = NoCall
  /\ steps = 0

NextTrain ==
  \/ \E samples \in Samples : TrainStep(samples)
  \/ \E samples \in Samples : DDPTrainStep(samples)

SpecTrain == InitTrain /\ [][NextTrain]_vars

\* ------------------------------------------------------------- claims
\* the places <<group, key, position in the bucket>> where heap h holds e
Holders(h, e) ==
  UNION {UNION {{<<g, h.channel_elems[g][n].key, m>> :
                   m \in {m \in DOMAIN h.channel_elems[g][n].val :
                            h.channel_elems[g][n].val[m] = e}}
                : n \in DOMAIN h.channel_elems[g]}
         : g \in DOMAIN h.channel_elems}

\* the bucket keys of group g
Keys(h, g) == {h.channel_elems[g][n].key : n \in DOMAIN h.channel_elems[g]}

\* the elements in bucket k of group g (none when g has no bucket k)
Bucket(h, g, k) ==
  IF dict_has(h.channel_elems[g], k)
  THEN {dict_get(h.channel_elems[g], k)[m] : m \in DOMAIN dict_get(h.channel_elems[g], k)}
  ELSE {}

\* the keys of g are 0..N-1 and no bucket is empty
Compact(h, g) ==
  /\ Keys(h, g) = 0..(len(h, g) - 1)
  /\ \A k \in Keys(h, g) : Bucket(h, g, k) # {}

\* g holds an element
Owns(h, g) == \E e \in DOMAIN h.group : h.group[e] = g

\* C1 as stated: between top-level calls of add_channel_elem,
\* remove_from_group, union_two_groups and split_group every element is in
\* exactly one bucket of exactly one group, and the keys of every group are
\* contiguous from 0 with no empty bucket.
C1_Original ==
  exc = NoExc =>
    /\ \A e \in Elems : Cardinality(Holders(Heap, e)) = 1
    /\ \A g \in Groups : Compact(Heap, g)

\* C1 amended: every element is in at most one bucket, in one exactly when it
\* has a group, and that bucket is bucket index_in_group of its group; as
\* long as add_channel_elem and remove_from_group have not been called
\* directly, every element is in exactly one bucket and every group that
\* holds an element has contiguous keys from 0 and no empty bucket.
C1_Partition ==
  /\ \A e \in Elems :
       /\ Cardinality(Holders(Heap, e)) <= 1
       /\ (group[e] # None) = (Holders(Heap, e) # {})
       /\ \A x \in Holders(Heap, e) : x[1] = group[e] /\ x[2] = index_in_group[e]
  /\ ~hist.raw =>
       /\ \A e \in Elems : group[e] # None
       /\ \A g \in Groups : Owns(Heap, g) => Compact(Heap, g)

\* C1 witness: after a union and a split a bucket holds two elements
C1_Witness ==
  /\ ~hist.raw /\ exc = NoExc
  /\ hist.op = "split_group" /\ Len(hist.ret) >= 2
  /\ \E g \in Groups : \E k \in Keys(Heap, g) : Cardinality(Bucket(Heap, g, k)) >= 2

\* the last call was align_tensors on two or more tensors of one length, each
\* with at least one element
AlignPre ==
  /\ hist.op = "align_tensors"
  /\ Len(hist.ts) >= 2
  /\ \A n \in DOMAIN hist.ts : Len(tensors[hist.ts[n]]) = Len(tensors[hist.ts[1]])
  /\ Len(tensors[hist.ts[1]]) >= 1

\* C2 as stated: align_tensors on two or more tensors of equal length, built
\* by construction, split_group, align_tensors, union and expand, completes
\* and leaves all of them with the same list of group_dict keys.
C2_AlignIdentical ==
  AlignPre =>
    /\ exc = NoExc
    /\ \A n \in DOMAIN hist.ts :
         group_dict_keys(Heap, tensors[hist.ts[n]])
           = group_dict_keys(Heap, tensors[hist.ts[1]])

\* x and y are in the same bucket of the same group
SameBucket(h, x, y) ==
  /\ h.group[x] # None
  /\ h.group[x] = h.group[y]
  /\ h.index_in_group[x] = h.index_in_group[y]

\* an element at position i and one at position j, of s or of o, share a bucket
Linked(h, s, o, i, j) ==
  \E x \in {s[i], o[i]} : \E y \in {s[j], o[j]} : SameBucket(h, x, y)

\* the positions linked to those of seen, directly or through other positions
RECURSIVE Reach(_, _, _, _)
Reach(h, s, o, seen) ==
  IF {j \in DOMAIN s : \E i \in seen : Linked(h, s, o, i, j)} \subseteq seen
  THEN seen
  ELSE Reach(h, s, o, seen \cup {j \in DOMAIN s : \E i \in seen : Linked(h, s, o, i, j)})

\* t is as its constructor left it: one group, bucket n holding only t[n]
Fresh(h, t) ==
  /\ t # <<>>
  /\ \A n \in DOMAIN t :
       h.group[t[n]] = h.group[t[1]] /\ h.index_in_group[t[n]] = n - 1
  /\ h.channel_elems[h.group[t[1]]] = [n \in DOMAIN t |-> [key |-> n - 1, val |-> <<t[n]>>]]

\* the last call was self.union(other) on two tensors of one length, and it
\* returned
UnionDone ==
  /\ hist.op = "union"
  /\ exc = NoExc
  /\ hist.ts[1] # hist.ts[2]
  /\ Len(tensors[hist.ts[1]]) = Len(tensors[hist.ts[2]])

\* two fresh tensors s and o of length 3 have become 3 buckets of one group,
\* bucket i holding s[i] and o[i] and nothing else
ThreeClasses(h, s, o) ==
  /\ len(h, h.group[s[1]]) = 3
  /\ \A i \in DOMAIN s :
       /\ h.group[s[i]] = h.group[s[1]]
       /\ Bucket(h, h.group[s[1]], i - 1) = {s[i], o[i]}
       /\ Len(dict_get(h.channel_elems[h.group[s[1]]], i - 1)) = 2

\* C3 as stated: after self.union(other) on two tensors of equal length every
\* position i has self[i] and other[i] in one bucket, no bucket holds
\* elements of two different positions of these tensors, and two fresh
\* tensors of length 3 give exactly 3 buckets of size 2.
C3_Original ==
  UnionDone =>
    /\ \A i \in DOMAIN tensors[hist.ts[1]] :
         SameBucket(Heap, tensors[hist.ts[1]][i], tensors[hist.ts[2]][i])
    /\ \A i, j \in DOMAIN tensors[hist.ts[1]] :
         i # j => ~Linked(Heap, tensors[hist.ts[1]], tensors[hist.ts[2]], i, j)
    /\ (Len(tensors[hist.ts[1]]) = 3
        /\ Fresh(hist.pre, tensors[hist.ts[1]]) /\ Fresh(hist.pre, tensors[hist.ts[2]]))
       => ThreeClasses(Heap, tensors[hist.ts[1]], tensors[hist.ts[2]])

\* C3 amended: after a self.union(other) that returns, every position i has
\* self[i] and other[i] in one bucket, and a bucket holds elements of two
\* different positions only when the two positions were linked before the
\* call, directly or through a chain of positions, by elements of self or
\* other sharing a bucket (as the positions of an expanded tensor are); two
\* fresh tensors of length 3 give exactly 3 buckets of size 2.
C3_Union ==
  UnionDone =>
    /\ \A i \in DOMAIN tensors[hist.ts[1]] :
         SameBucket(Heap, tensors[hist.ts[1]][i], tensors[hist.ts[2]][i])
    /\ \A i, j \in DOMAIN tensors[hist.ts[1]] :
         Linked(Heap, tensors[hist.ts[1]], tensors[hist.ts[2]], i, j)
           => j \in Reach(hist.pre, tensors[hist.ts[1]], tensors[hist.ts[2]], {i})
    /\ (Len(tensors[hist.ts[1]]) = 3
        /\ Fresh(hist.pre, tensors[hist.ts[1]]) /\ Fresh(hist.pre, tensors[hist.ts[2]]))
       => ThreeClasses(Heap, tensors[hist.ts[1]], tensors[hist.ts[2]])

\* C3 witness: two fresh tensors of length 3 have been united
C3_Witness ==
  /\ UnionDone
  /\ Len(tensors[hist.ts[1]]) = 3
  /\ Fresh(hist.pre, tensors[hist.ts[1]])
  /\ Fresh(hist.pre, tensors[hist.ts[2]])

\* the last call was tensors[hist.ts[1]].expand(hist.ratio), and it returned
\* the tensor hist.ret
ExpandDone == hist.op = "expand" /\ exc = NoExc

\* C4: after t.expand(r) returns e, for every position i of t and every j in
\* 0..r-1 the element e[i*r + j] is in the group and under the bucket key of
\* t[i], in that bucket.
C4_ExpandReplication ==
  ExpandDone =>
    /\ Len(hist.ret) = Len(tensors[hist.ts[1]]) * hist.ratio
    /\ \A i \in 0..(Len(tensors[hist.ts[1]]) - 1) : \A j \in 0..(hist.ratio - 1) :
         /\ SameBucket(Heap, hist.ret[i * hist.ratio + j + 1], tensors[hist.ts[1]][i + 1])
         /\ hist.ret[i * hist.ratio + j + 1]
              \in Bucket(Heap, group[tensors[hist.ts[1]][i + 1]],
                         index_in_group[tensors[hist.ts[1]][i + 1]])

\* C4 witness: a tensor of two positions in different groups has been
\* expanded with ratio 2
C4_Witness ==
  /\ ExpandDone
  /\ hist.ratio = 2
  /\ Len(tensors[hist.ts[1]]) = 2
  /\ group[tensors[hist.ts[1]][1]] # group[tensors[hist.ts[1]][2]]

\* the number of buckets before block m of nums
Offset(nums, m) == sum(SubSeq(nums, 1, m - 1))

\* the last call was split_group on a group with keys 0..N-1, no bucket
\* empty, and sizes of sum N
SplitPre ==
  /\ hist.op = "split_group"
  /\ Compact(hist.pre, hist.grp)
  /\ sum(hist.nums) = len(hist.pre, hist.grp)

\* split_group returned one group per size, the m-th with keys 0..s_m-1 and
\* in bucket q what bucket s_1+...+s_(m-1)+q of the group held; the group
\* itself, unless it is what was returned, has no bucket left
SplitResult ==
  /\ exc = NoExc
  /\ Len(hist.ret) = Len(hist.nums)
  /\ \A m \in DOMAIN hist.ret :
       /\ Keys(Heap, hist.ret[m]) = 0..(hist.nums[m] - 1)
       /\ \A q \in 0..(hist.nums[m] - 1) :
            Bucket(Heap, hist.ret[m], q)
              = Bucket(hist.pre, hist.grp, Offset(hist.nums, m) + q)
  /\ (\A m \in DOMAIN hist.ret : hist.ret[m] # hist.grp) => Keys(Heap, hist.grp) = {}

\* C5 as stated: for a group with keys 0..N-1 and any sizes s_1..s_k of sum
\* N, split_group returns k groups in order, the m-th with keys 0..s_m-1 and
\* in bucket q the elements of the group's bucket s_1+...+s_(m-1)+q; the
\* moved buckets are gone from the group.
C5_SplitContract == SplitPre => SplitResult

\* the last call was union_groups on the list the split_group call before it
\* returned, that call having split a group G with keys 0..N-1, no bucket
\* empty, into positive sizes of sum N (chain holds G, the sizes and the heap
\* before the split)
RoundTripPre ==
  /\ hist.op = "union_groups"
  /\ hist.chain.on
  /\ Compact(hist.chain.pre, hist.chain.grp)
  /\ sum(hist.chain.nums) = len(hist.chain.pre, hist.chain.grp)
  /\ \A m \in DOMAIN hist.chain.nums : hist.chain.nums[m] > 0

\* C6 as stated: split_group(G, sizes) followed by union_groups on the
\* returned list completes and gives a group with the N buckets of G, each
\* key holding the elements it held in G.
C6_Original ==
  RoundTripPre =>
    /\ exc = NoExc
    /\ Keys(Heap, hist.ret[1]) = Keys(hist.chain.pre, hist.chain.grp)
    /\ \A q \in Keys(hist.chain.pre, hist.chain.grp) :
         Bucket(Heap, hist.ret[1], q) = Bucket(hist.chain.pre, hist.chain.grp, q)

\* C6 amended: split_group(G, sizes) followed by union_groups on the
\* returned list completes exactly when there are two or more sizes, all
\* equal to some s, and otherwise fails an assertion; when it completes the
\* result is the first returned group with s buckets, bucket q holding the
\* elements of G's buckets q, s+q, 2s+q, ...: the blocks are laid over each
\* other, G is not reconstructed.
C6_RoundTrip ==
  RoundTripPre =>
    /\ (exc = NoExc) = (/\ Len(hist.chain.nums) >= 2
                        /\ \A m \in DOMAIN hist.chain.nums :
                             hist.chain.nums[m] = hist.chain.nums[1])
    /\ exc # NoExc => exc = "AssertionError"
    /\ exc = NoExc =>
         /\ hist.ret = <<hist.groups[1]>>
         /\ Keys(Heap, hist.ret[1]) = 0..(hist.chain.nums[1] - 1)
         /\ \A q \in 0..(hist.chain.nums[1] - 1) :
              Bucket(Heap, hist.ret[1], q)
                = UNION {Bucket(hist.chain.pre, hist.chain.grp,
                                (m - 1) * hist.chain.nums[1] + q)
                         : m \in DOMAIN hist.chain.nums}

\* C6 witness: a group of two buckets, one holding two elements, has been
\* split into sizes 1, 1 and the two groups united
C6_Witness ==
  /\ RoundTripPre
  /\ exc = NoExc
  /\ hist.chain.nums = <<1, 1>>
  /\ \E q \in 0..1 :
       Cardinality(Bucket(hist.chain.pre, hist.chain.grp, q)) >= 2

\* the last call was union_two_groups(a, b) on two distinct groups with the
\* same keys 0..N-1
UnionTwoPre ==
  /\ hist.op = "union_two_groups"
  /\ hist.groups[1] # hist.groups[2]
  /\ Keys(hist.pre, hist.groups[1]) = 0..(len(hist.pre, hist.groups[1]) - 1)
  /\ Keys(hist.pre, hist.groups[2]) = Keys(hist.pre, hist.groups[1])

\* C7: after union_two_groups(a, b) on two distinct groups with keys 0..N-1
\* every element of b's bucket i is in a's bucket i, every element of a's
\* bucket i is still there, the returned group is a, and b holds no element.
C7_UnionTwo ==
  UnionTwoPre =>
    /\ exc = NoExc
    /\ hist.ret = <<hist.groups[1]>>
    /\ \A i \in Keys(hist.pre, hist.groups[1]) :
         Bucket(Heap, hist.groups[1], i)
           = Bucket(hist.pre, hist.groups[1], i) \cup Bucket(hist.pre, hist.groups[2], i)
    /\ \A e \in Elems :
         hist.pre.group[e] \in {hist.groups[1], hist.groups[2]}
           => group[e] = hist.groups[1] /\ index_in_group[e] = hist.pre.index_in_group[e]
    /\ \A e \in Elems : group[e] # hist.groups[2]
    /\ \A i \in Keys(Heap, hist.groups[2]) : Bucket(Heap, hist.groups[2], i) = {}

\* C7 witness: two groups of two or more buckets, each holding elements,
\* have been united
C7_Witness ==
  /\ UnionTwoPre
  /\ exc = NoExc
  /\ len(hist.pre, hist.groups[1]) >= 2
  /\ \A i \in Keys(hist.pre, hist.groups[1]) :
       Bucket(hist.pre, hist.groups[1], i) # {} /\ Bucket(hist.pre, hist.groups[2], i) # {}

\* the sets of elements that share a bucket
Partition(h) ==
  UNION {{Bucket(h, g, k) : k \in Keys(h, g)} : g \in DOMAIN h.channel_elems} \ {{}}

\* which bucket key every element has, and which elements share a bucket;
\* which group object holds them is left out
Membership(h) == [exc |-> h.exc, key |-> h.index_in_group, classes |-> Partition(h)]

\* a and b are distinct groups of heap h with the same keys 0..N-1
EqualSize(h, a, b) ==
  /\ a # b
  /\ Keys(h, a) = 0..(len(h, a) - 1)
  /\ Keys(h, b) = Keys(h, a)

\* (x u y) u z and x u (y u z) from heap h; the union of x and y is x
UnionLeft(h, x, y, z) == union_two_groups(union_two_groups(h, x, y), x, z)

UnionRight(h, x, y, z) == union_two_groups(union_two_groups(h, y, z), x, y)

\* the last call was union_two_groups(a, b) on two distinct groups of equal
\* size, and it returned
UnionTwoDone == UnionTwoPre /\ exc = NoExc

\* C8: union_two_groups(A, B) and union_two_groups(B, A) give every element
\* the same bucket key and the same co-bucketed elements, and three groups of
\* equal size united in any order and nesting give the same keys and the
\* same partition. A and B are the groups of the last call, compared with
\* the other orders run on the heap before it; C is any third group.
C8_UnionCommutes ==
  UnionTwoDone =>
    /\ Membership(Heap) = Membership(union_two_groups(hist.pre, hist.groups[2], hist.groups[1]))
    /\ \A c \in DOMAIN hist.pre.channel_elems \ {hist.groups[1], hist.groups[2]} :
         EqualSize(hist.pre, hist.groups[1], c) =>
           \A x, y, z \in {hist.groups[1], hist.groups[2], c} :
             (x # y /\ y # z /\ x # z) =>
               /\ Membership(UnionLeft(hist.pre, x, y, z))
                    = Membership(union_two_groups(Heap, hist.groups[1], c))
               /\ Membership(UnionRight(hist.pre, x, y, z))
                    = Membership(union_two_groups(Heap, hist.groups[1], c))

\* C8 witness: two of three groups of two or more buckets, all holding
\* elements, have been united
C8_Witness ==
  /\ UnionTwoDone
  /\ len(hist.pre, hist.groups[1]) >= 2
  /\ \E c \in DOMAIN hist.pre.channel_elems \ {hist.groups[1], hist.groups[2]} :
       /\ EqualSize(hist.pre, hist.groups[1], c)
       /\ \A i \in Keys(hist.pre, c) :
            /\ Bucket(hist.pre, c, i) # {}
            /\ Bucket(hist.pre, hist.groups[1], i) # {}
            /\ Bucket(hist.pre, hist.groups[2], i) # {}

\* the starts and ends of a list of group_dict keys
Points(keys) == UNION {{keys[n][1], keys[n][2]} : n \in DOMAIN keys}

\* the last call was align_tensors on two or more tensors of one length, and
\* it returned
AlignDone == AlignPre /\ exc = NoExc

\* tensor A had the group_dict keys (0,2),(2,4) and tensor B the keys
\* (0,1),(1,4) when align_tensors(A, B) was called
AlignScenario ==
  /\ AlignDone
  /\ Len(hist.ts) = 2
  /\ group_dict_keys(hist.pre, tensors[hist.ts[1]]) = <<<<0, 2>>, <<2, 4>>>>
  /\ group_dict_keys(hist.pre, tensors[hist.ts[2]]) = <<<<0, 1>>, <<1, 4>>>>

\* C9: after align_tensors on tensors of equal length, the boundary points of
\* every participating tensor are the union of the boundary points all of
\* them had before the call, no more and no fewer; A with (0,2),(2,4) and B
\* with (0,1),(1,4) both end with (0,1),(1,2),(2,4).
C9_CommonRefinement ==
  AlignDone =>
    /\ \A n \in DOMAIN hist.ts :
         Points(group_dict_keys(Heap, tensors[hist.ts[n]]))
           = UNION {Points(group_dict_keys(hist.pre, tensors[hist.ts[m]]))
                    : m \in DOMAIN hist.ts}
    /\ AlignScenario =>
         \A n \in DOMAIN hist.ts :
           group_dict_keys(Heap, tensors[hist.ts[n]]) = <<<<0, 1>>, <<1, 2>>, <<2, 4>>>>

\* C9 witness: align_tensors(A, B) has returned for A with (0,2),(2,4) and B
\* with (0,1),(1,4)
C9_Witness == AlignScenario

\* C10 as stated: split_group with sizes, one or more, whose sum is not the
\* number of buckets of the group fails, and leaves the group and the group
\* and bucket key of every element as they were.
C10_SplitRejects ==
  (hist.op = "split_group" /\ sum(hist.nums) # len(hist.pre, hist.grp)) =>
    /\ exc # NoExc
    /\ channel_elems = hist.pre.channel_elems
    /\ group = hist.pre.group
    /\ index_in_group = hist.pre.index_in_group

\* the last call left every group and the group and bucket key of every
\* element as they were
Unchanged ==
  /\ channel_elems = hist.pre.channel_elems
  /\ group = hist.pre.group
  /\ index_in_group = hist.pre.index_in_group

\* the last call was union_two_groups on two distinct groups with different
\* numbers of buckets
UnionTwoMismatch ==
  /\ hist.op = "union_two_groups"
  /\ hist.groups[1] # hist.groups[2]
  /\ len(hist.pre, hist.groups[1]) # len(hist.pre, hist.groups[2])

\* C11: union_two_groups on two distinct groups with different numbers of
\* buckets fails its assertion before any element is moved: both groups and
\* the group and bucket key of every element are as before the call.
C11_UnionTwoRejects == UnionTwoMismatch => exc = "AssertionError" /\ Unchanged

\* C11 witness: union_two_groups has been called on a group of one bucket and
\* a group of more, both holding elements
C11_Witness ==
  /\ UnionTwoMismatch
  /\ Owns(hist.pre, hist.groups[1])
  /\ Owns(hist.pre, hist.groups[2])
  /\ len(hist.pre, hist.groups[1]) = 1

\* the last call was align_tensors or union on tensors that are not all of
\* one length
LengthMismatch ==
  /\ hist.op \in {"align_tensors", "union"}
  /\ \E n \in DOMAIN hist.ts : Len(tensors[hist.ts[n]]) # Len(tensors[hist.ts[1]])

\* C12: align_tensors and union on tensors of differing lengths fail, and
\* they fail before anything is mutated: no group has been split and no
\* element has changed its group or bucket key.
C12_LengthChecked == LengthMismatch => exc = "AssertionError" /\ Unchanged

\* C12 witness: union has been called on a tensor of one element and a
\* longer tensor
C12_Witness ==
  /\ LengthMismatch
  /\ hist.op = "union"
  /\ Len(tensors[hist.ts[1]]) = 1
  /\ Len(tensors[hist.ts[2]]) >= 2

\* every element is in exactly one bucket, the one its group and bucket key
\* name, and every group that holds an element has keys 0..N-1 and no empty
\* bucket
PartitionRestored ==
  /\ \A e \in Elems :
       /\ group[e] # None
       /\ Cardinality(Holders(Heap, e)) = 1
       /\ \A x \in Holders(Heap, e) : x[1] = group[e] /\ x[2] = index_in_group[e]
  /\ \A g \in Groups : Owns(Heap, g) => Compact(Heap, g)

\* C13 as stated: on tensors and groups built by construction, split_group,
\* align_tensors, union and expand, a call of align_tensors, union,
\* union_two_groups or split_group either returns with the partition
\* invariants restored or raises with every group and the group and bucket
\* key of every element as before the call.
C13_AllOrNothing ==
  hist.op \in {"align_tensors", "union", "union_two_groups", "split_group"} =>
    IF exc = NoExc THEN PartitionRestored ELSE Unchanged

\* the last call was g.add_channel_elem(e, k) for an element e of another
\* group
ReparentPre ==
  /\ hist.op = "add_channel_elem"
  /\ hist.pre.group[hist.elem] # None
  /\ hist.pre.group[hist.elem] # hist.grp

\* C14: after g.add_channel_elem(e, k) for an element e of a different group
\* h, e is in bucket k of g and nowhere else, e.group is g and
\* e.index_in_group is k, no bucket of h holds e, and the group and bucket
\* key of every other element are unchanged.
C14_AtomicReparent ==
  ReparentPre =>
    /\ exc = NoExc
    /\ Cardinality(Holders(Heap, hist.elem)) = 1
    /\ \A x \in Holders(Heap, hist.elem) : x[1] = hist.grp /\ x[2] = hist.index
    /\ group[hist.elem] = hist.grp
    /\ index_in_group[hist.elem] = hist.index
    /\ \A k \in Keys(Heap, hist.pre.group[hist.elem]) :
         hist.elem \notin Bucket(Heap, hist.pre.group[hist.elem], k)
    /\ \A e \in Elems \ {hist.elem} :
         group[e] = hist.pre.group[e] /\ index_in_group[e] = hist.pre.index_in_group[e]

\* C14 witness: an element of another group has been added to a bucket that
\* already held an element
C14_Witness ==
  /\ ReparentPre
  /\ exc = NoExc
  /\ Bucket(hist.pre, hist.grp, hist.index) # {}

\* the last call was g.add_channel_elem(e, k) for an element e of g with
\* another bucket key
SameGroupPre ==
  /\ hist.op = "add_channel_elem"
  /\ hist.pre.group[hist.elem] = hist.grp
  /\ hist.pre.index_in_group[hist.elem] # hist.index

\* C15: g.add_channel_elem(e, k) fails its assertion when e already belongs
\* to g under another key, before any bucket is modified: g and e are as
\* before the call.
C15_SameGroupRejected == SameGroupPre => exc = "AssertionError" /\ Unchanged

\* C15 witness: an element of bucket 1 of a group has been added to bucket 0
\* of that group
C15_Witness ==
  /\ SameGroupPre
  /\ hist.pre.index_in_group[hist.elem] = 1
  /\ hist.index = 0

\* C16: in every state reached by any sequence of group and tensor
\* operations each element belongs to at most one group; an element with
\* group g is exactly once in bucket index_in_group of g and in no other
\* bucket of any group; an element with group None is in no bucket and its
\* index_in_group is -1.
C16_BackReference ==
  \A e \in Elems :
    IF group[e] = None
    THEN Holders(Heap, e) = {} /\ index_in_group[e] = -1
    ELSE /\ group[e] \in Groups
         /\ Cardinality(Holders(Heap, e)) = 1
         /\ \A x \in Holders(Heap, e) : x = <<group[e], index_in_group[e], x[3]>>

\* C16 witness: an element has been removed from its group while another
\* bucket holds two elements
C16_Witness ==
  /\ hist.op = "remove_from_group"
  /\ exc = NoExc
  /\ group[hist.elem] = None
  /\ \E g \in Groups : \E k \in Keys(Heap, g) : Cardinality(Bucket(Heap, g, k)) >= 2

\* the positions of tensor t, counted from 0, at which the group differs
\* from that of the position before or the bucket key is not larger
StartsNoIncrease(h, t) ==
  {i \in 1..(Len(t) - 1) :
     \/ h.group[t[i + 1]] # h.group[t[i]]
     \/ h.index_in_group[t[i + 1]] <= h.index_in_group[t[i]]}

\* the positions at which the group differs or the bucket key is smaller
StartsDecrease(h, t) ==
  {i \in 1..(Len(t) - 1) :
     \/ h.group[t[i + 1]] # h.group[t[i]]
     \/ h.index_in_group[t[i + 1]] < h.index_in_group[t[i]]}

\* the blocks (start, end) of a tensor t cut at the positions starts
Blocks(t, starts) ==
  {b \in (starts \cup {0}) \X (starts \cup {Len(t)}) :
     b[1] < b[2] /\ ~\E c \in starts : b[1] < c /\ c < b[2]}

\* the keys of group_dict as a set
KeySet(h, t) == {group_dict_keys(h, t)[n] : n \in DOMAIN group_dict_keys(h, t)}

\* the keys of group_dict follow each other from 0 to the length of t, and
\* every block maps to the group of all its elements
BlocksInOrder(h, t) ==
  /\ group_dict(h, t)[1].start = 0
  /\ group_dict(h, t)[Len(group_dict(h, t))].end = Len(t)
  /\ \A n \in DOMAIN group_dict(h, t) :
       /\ n > 1 => group_dict(h, t)[n].start = group_dict(h, t)[n - 1].end
       /\ \A i \in (group_dict(h, t)[n].start + 1)..group_dict(h, t)[n].end :
            h.group[t[i]] = group_dict(h, t)[n].grp

AlreadyAligned ==
  /\ AlignPre
  /\ \A n \in DOMAIN hist.ts :
       group_dict_keys(hist.pre, tensors[hist.ts[n]])
         = group_dict_keys(hist.pre, tensors[hist.ts[1]])

\* align_tensors called once more on the tensors of the last call
AlignAgain == align_tensors(Heap, [n \in DOMAIN hist.ts |-> tensors[hist.ts[n]]])

\* C18: align_tensors on tensors whose boundaries already coincide (a tensor
\* with itself included) splits nothing and changes no element's group or
\* bucket key, and a second align_tensors on the same tensors leaves the
\* state the first call produced unchanged.
C18_AlignIdempotent ==
  /\ AlreadyAligned => exc = NoExc /\ Unchanged
  /\ AlignDone =>
       /\ ok(AlignAgain)
       /\ AlignAgain.channel_elems = channel_elems
       /\ AlignAgain.group = group
       /\ AlignAgain.index_in_group = index_in_group

\* C18 witness: align_tensors has returned after splitting a group
C18_Witness == AlignDone /\ ~Unchanged

\* C19 as stated: constructing a ChannelTensor of length 0, directly or
\* through expand with ratio 0, fails, so no tensor of length 0 ever exists.
C19_ZeroRejected ==
  /\ (hist.op = "ChannelTensor" /\ hist.index = 0) => exc # NoExc
  /\ (hist.op = "expand" /\ hist.ratio = 0) => exc # NoExc
  /\ \A n \in DOMAIN tensors : tensors[n] # <<>>

\* the last call was remove_from_group on an element that had a group
RemovePre ==
  /\ hist.op = "remove_from_group"
  /\ hist.pre.group[hist.elem] # None

\* C20: remove_from_group takes the element out of its bucket only: the
\* element ends with no group, every group keeps its bucket keys (the
\* emptied bucket too, so len(group) is unchanged), and all other elements
\* and buckets are unchanged.
C20_RemoveFrame ==
  RemovePre =>
    /\ exc = NoExc
    /\ group[hist.elem] = None
    /\ Holders(Heap, hist.elem) = {}
    /\ \A g \in Groups :
         /\ dict_keys(channel_elems[g]) = dict_keys(hist.pre.channel_elems[g])
         /\ \A n \in DOMAIN channel_elems[g] :
              IF g = hist.pre.group[hist.elem]
                 /\ channel_elems[g][n].key = hist.pre.index_in_group[hist.elem]
              THEN /\ Bucket(Heap, g, channel_elems[g][n].key)
                        = Bucket(hist.pre, g, channel_elems[g][n].key) \ {hist.elem}
                   /\ Len(channel_elems[g][n].val) + 1
                        = Len(hist.pre.channel_elems[g][n].val)
              ELSE channel_elems[g][n].val = hist.pre.channel_elems[g][n].val
    /\ \A e \in Elems \ {hist.elem} :
         group[e] = hist.pre.group[e] /\ index_in_group[e] = hist.pre.index_in_group[e]

\* C20 witness: the only element of a bucket has been removed
C20_Witness ==
  /\ RemovePre
  /\ exc = NoExc
  /\ Bucket(Heap, hist.pre.group[hist.elem], hist.pre.index_in_group[hist.elem]) = {}

\* the last call was t.expand(r) on a tensor t that was as its constructor
\* left it, and it returned
ExpandFresh == ExpandDone /\ Fresh(hist.pre, tensors[hist.ts[1]])

\* the classes of the elements of tensor t: its pairs of group and bucket key
Classes(h, t) == {<<h.group[t[n]], h.index_in_group[t[n]]>> : n \in DOMAIN t}

\* C21: t.expand(r) on a freshly constructed tensor t of length N returns a
\* new tensor of length N*r whose elements fall into N classes, the buckets of
\* the N elements of t, each holding r of the new elements (those of
\* positions i*r..i*r+r-1, next to t[i] itself); for N = 2 and r = 3 the new
\* tensor has length 6 and its elements are in exactly 2 classes of 3.
C21_ExpandClasses ==
  ExpandFresh =>
    /\ Len(hist.ret) = Len(tensors[hist.ts[1]]) * hist.ratio
    /\ Cardinality(Classes(Heap, tensors[hist.ts[1]])) = Len(tensors[hist.ts[1]])
    /\ Classes(Heap, hist.ret) \subseteq Classes(Heap, tensors[hist.ts[1]])
    /\ \A i \in DOMAIN tensors[hist.ts[1]] :
         /\ Bucket(Heap, group[tensors[hist.ts[1]][i]], index_in_group[tensors[hist.ts[1]][i]])
              = {tensors[hist.ts[1]][i]}
                  \cup {hist.ret[(i - 1) * hist.ratio + j] : j \in 1..hist.ratio}
         /\ Len(dict_get(channel_elems[group[tensors[hist.ts[1]][i]]],
                         index_in_group[tensors[hist.ts[1]][i]])) = hist.ratio + 1
    /\ (Len(tensors[hist.ts[1]]) = 2 /\ hist.ratio = 3) =>
         /\ Len(hist.ret) = 6
         /\ Cardinality(Classes(Heap, hist.ret)) = 2
         /\ \A c \in Classes(Heap, hist.ret) :
              Cardinality({n \in DOMAIN hist.ret :
                             <<group[hist.ret[n]], index_in_group[hist.ret[n]]>> = c}) = 3

\* C21 witness: a fresh tensor of length 2 has been expanded with ratio 3
C21_Witness ==
  /\ ExpandFresh
  /\ Len(tensors[hist.ts[1]]) = 2
  /\ hist.ratio = 3

\* every tensor and every element's position in its tensor are after the
\* step what they were before it
TensorsKept ==
  /\ \A n \in DOMAIN tensors : n \in DOMAIN tensors' /\ tensors'[n] = tensors[n]
  /\ \A e \in DOMAIN index_in_channel_tensor :
       /\ e \in DOMAIN index_in_channel_tensor'
       /\ index_in_channel_tensor'[e] = index_in_channel_tensor[e]

\* when the step is a call of expand, the elements of its source tensor have
\* the group and bucket key they had
SourceKept ==
  hist'.op = "expand" =>
    \A m \in DOMAIN tensors[hist'.ts[1]] :
      /\ group'[tensors[hist'.ts[1]][m]] = group[tensors[hist'.ts[1]][m]]
      /\ index_in_group'[tensors[hist'.ts[1]][m]] = index_in_group[tensors[hist'.ts[1]][m]]

\* C22: no call (align_tensors, union, split_group, union_two_groups, expand,
\* or any other operation) changes the length or the elements of an existing
\* ChannelTensor or the index_in_channel_tensor of any element, and expand
\* leaves the elements of its source tensor in the group and under the bucket
\* key they had before the call.
C22_LengthFixed == [][TensorsKept /\ SourceKept]_vars

\* C22 witness: a tensor of two or more elements, one of them sharing its
\* bucket with another element, has been expanded with ratio 2
C22_Witness ==
  /\ ExpandDone
  /\ hist.ratio = 2
  /\ Len(tensors[hist.ts[1]]) >= 2
  /\ Len(tensors[Len(tensors)]) = 2 * Len(tensors[hist.ts[1]])
  /\ \E m \in DOMAIN tensors[hist.ts[1]] :
       Cardinality(Bucket(hist.pre, hist.pre.group[tensors[hist.ts[1]][m]],
                          hist.pre.index_in_group[tensors[hist.ts[1]][m]])) >= 2

\* the buckets of group g that hold an element, in the order of the dict
Survivors(h, g) == SelectSeq(h.channel_elems[g], LAMBDA b : b.val # <<>>)

\* the elements of a list
Range(l) == {l[n] : n \in DOMAIN l}

\* the last call was g._reindex(), and it returned
ReindexDone == hist.op = "_reindex" /\ exc = NoExc

\* C23 as stated: after _reindex returns, the empty buckets are gone, the
\* buckets that held elements are keyed 0..M-1 in the order they had, M being
\* their number before the call, each holds exactly the elements it held, and
\* a group that had keys 0..N-1 and no empty bucket is unchanged.
C23_ReindexCompacts ==
  ReindexDone =>
    /\ Keys(Heap, hist.grp) = 0..(Len(Survivors(hist.pre, hist.grp)) - 1)
    /\ \A n \in DOMAIN Survivors(hist.pre, hist.grp) :
         Bucket(Heap, hist.grp, n - 1) = Range(Survivors(hist.pre, hist.grp)[n].val)
    /\ Compact(hist.pre, hist.grp) => Unchanged

\* two buckets of group g that hold elements are visited with the larger key
\* first
OutOfOrder(h, g) ==
  \E p, q \in DOMAIN h.channel_elems[g] :
    /\ p < q
    /\ h.channel_elems[g][p].val # <<>>
    /\ h.channel_elems[g][q].val # <<>>
    /\ h.channel_elems[g][q].key < h.channel_elems[g][p].key

\* C24 as stated: _reindex raises whenever, in the order in which it visits
\* the buckets, a bucket that holds elements has a smaller key than a bucket
\* holding elements that was visited before it.
C24_ReindexRaises ==
  (hist.op = "_reindex" /\ OutOfOrder(hist.pre, hist.grp)) => exc = "Exception"

\* tensors a and b have one length and at every position their elements share
\* a bucket
Coupled(h, a, b) ==
  /\ Len(a) = Len(b)
  /\ \A i \in DOMAIN a : SameBucket(h, a[i], b[i])

\* elements that share a bucket before the step share one after it
BucketsStay ==
  \A x, y \in DOMAIN group :
    SameBucket(Heap, x, y) =>
      /\ group'[x] # None
      /\ group'[x] = group'[y]
      /\ index_in_group'[x] = index_in_group'[y]

\* a union that has returned has left self[i] and other[i] in one bucket for
\* every position i
UnionCouples == UnionDone => Coupled(Heap, tensors[hist.ts[1]], tensors[hist.ts[2]])

\* two tensors that are coupled have the same group_dict keys
CoupledAligned ==
  \A a, b \in DOMAIN tensors :
    (tensors[a] # <<>> /\ Coupled(Heap, tensors[a], tensors[b]))
      => group_dict_keys(Heap, tensors[a]) = group_dict_keys(Heap, tensors[b])

\* C25: a self.union(other) that returns leaves self[i] and other[i] in one
\* bucket for every position i; no later call of construction, align_tensors,
\* union, split_group or expand on any tensors or groups, returning or
\* raising, separates two elements that share a bucket; and two tensors
\* coupled in this way have the same group_dict keys.
C25_CouplingPermanent == [][UnionCouples' /\ BucketsStay /\ CoupledAligned']_vars

\* C25 witness: the two tensors the run started with, of two or more
\* elements, are coupled, and the group of the first has then been split
C25_Witness ==
  /\ Len(tensors[1]) >= 2
  /\ Coupled(Heap, tensors[1], tensors[2])
  /\ hist.op = "split_group"
  /\ exc = NoExc
  /\ Len(hist.ret) >= 2
  /\ hist.pre.group[tensors[1][1]] = hist.grp
  /\ Coupled(hist.pre, tensors[1], tensors[2])

\* the last call was self.union(other) on two tensors with elements that
\* were coupled already, self.union(self) included
UnionAgain ==
  /\ hist.op = "union"
  /\ tensors[hist.ts[1]] # <<>>
  /\ Coupled(hist.pre, tensors[hist.ts[1]], tensors[hist.ts[2]])

\* C26 as stated: A.union(B) on tensors that are already coupled, directly or
\* through a third tensor, and A.union(A), complete without error and leave
\* the group and bucket key of every element unchanged.
C26_RepeatedUnion == UnionAgain => exc = NoExc /\ Unchanged

\* other.union(self) run on the heap the last call self.union(other) started
\* from
UnionSwapped == union(hist.pre, tensors[hist.ts[2]], tensors[hist.ts[1]])

\* C27 as stated: for two tensors of equal length built by construction,
\* split_group, align_tensors, union and expand, A.union(B) succeeds exactly
\* when B.union(A) succeeds from the same state, and both leave the same sets
\* of elements sharing a bucket.
C27_UnionSymmetric ==
  (hist.op = "union" /\ Len(tensors[hist.ts[1]]) = Len(tensors[hist.ts[2]])) =>
    /\ (exc = NoExc) = ok(UnionSwapped)
    /\ exc = NoExc => Partition(Heap) = Partition(UnionSwapped)

\* C28 as stated: in every state reached through construction, align_tensors,
\* union and expand, every entry (start, end) -> g of the group_dict of every
\* tensor has as many buckets in g as the block is long, len(g) = end - start
\* (which is what keeps the assertion of split_group in
\* align_groups_with_nums from failing).
C28_BlockLength ==
  \A n \in DOMAIN tensors :
    tensors[n] # <<>> =>
      \A m \in DOMAIN group_dict(Heap, tensors[n]) :
        len(Heap, group_dict(Heap, tensors[n])[m].grp)
          = group_dict(Heap, tensors[n])[m].end - group_dict(Heap, tensors[n])[m].start

\* C29: in every state reached through construction, align_tensors, union and
\* split_group with positive sizes, without expand, no two positions of one
\* tensor are in the same bucket: a bucket holds at most one element of any
\* tensor; all elements of a bucket have the same position in their tensors.
C29_NoCrossPosition ==
  /\ \A n \in DOMAIN tensors : \A i, j \in DOMAIN tensors[n] :
       i # j => ~SameBucket(Heap, tensors[n][i], tensors[n][j])
  /\ \A x, y \in Elems :
       SameBucket(Heap, x, y) => index_in_channel_tensor[x] = index_in_channel_tensor[y]

\* C29 witness: two tensors of two or more elements, one of them in two
\* blocks after a split, have been united
C29_Witness ==
  /\ UnionDone
  /\ Len(tensors[hist.ts[1]]) >= 2
  /\ \/ Len(group_dict(hist.pre, tensors[hist.ts[1]])) >= 2
     \/ Len(group_dict(hist.pre, tensors[hist.ts[2]])) >= 2

\* C30: in every state between calls of construction, align_tensors, union,
\* expand and split_group, the state a raising call leaves included, every
\* element of every tensor has a group; the assertion ch.group is not None
\* never fails: expand always returns, and a union that raises does not
\* raise from the assertion of line 323.
C30_AlwaysOwned ==
  /\ \A n \in DOMAIN tensors : \A i \in DOMAIN tensors[n] :
       group[tensors[n][i]] # None /\ group[tensors[n][i]] \in Groups
  /\ hist.op = "expand" => exc = NoExc
  /\ hist.op = "union" =>
       union_named(hist.pre, tensors[hist.ts[1]], tensors[hist.ts[2]]).exc = exc

\* C30 witness: a tensor in two or more blocks, its elements re-indexed by a
\* split, has been expanded
C30_Witness ==
  /\ ExpandDone
  /\ hist.ratio >= 1
  /\ Len(group_dict(hist.pre, tensors[hist.ts[1]])) >= 2

IsReinit(c) == c.op = "reinitialize_optim_wrapper_count_status"

IsUpdate(c) == c.op = "update_params"

IsNotReinit(c) == ~IsReinit(c)

Reinits(log) == SelectSeq(log, IsReinit)

Updates(log) == SelectSeq(log, IsUpdate)

SubnetCalls(log) == SelectSeq(log, IsNotReinit)

\* the i-th subnet a train_step sets: max, min, then the sampled ones
SetOp(i) ==
  IF i = 1 THEN "set_max_subnet"
  ELSE IF i = 2 THEN "set_min_subnet" ELSE "set_sampled_subnet"

\* log is num_samples + 2 times a subnet set and then one update_params on
\* that subnet, the max subnet first and the min subnet second
InOrder(log) ==
  /\ Len(SubnetCalls(log)) = 2 * (num_samples + 2)
  /\ \A i \in 1..(num_samples + 2) :
       /\ SubnetCalls(log)[2 * i - 1].op = SetOp(i)
       /\ SubnetCalls(log)[2 * i].op = "update_params"
       /\ SubnetCalls(log)[2 * i].arg = SubnetCalls(log)[2 * i - 1].arg
  /\ SubnetCalls(log)[1].arg = max_structure
  /\ SubnetCalls(log)[3].arg = min_structure

\* C31: every train_step, of the AutoSlim or of its AutoSlimDDP wrapper,
\* sets the max subnet, the min subnet and then num_samples sampled subnets
\* in that order, calls update_params once after each of them and so
\* num_samples + 2 times, which is the accumulative_counts handed to the
\* count-status re-initialisation; the re-initialisation is the first call of
\* the first train_step and is made in no later step.
C31_TrainStepOrder ==
  \A k \in DOMAIN calls :
    /\ InOrder(calls[k])
    /\ Len(Updates(calls[k])) = num_samples + 2
    /\ Len(Reinits(calls[k])) = IF k = 1 THEN 1 ELSE 0
    /\ IsReinit(calls[1][1])
    /\ calls[1][1].arg = Len(Updates(calls[k]))
    /\ _optim_wrapper_count_status_reinitialized

\* C31 witness: two or more train_steps with sampled subnets have been made,
\* the latest through the other entry point than the first
C31_Witness ==
  /\ Len(calls) >= 2
  /\ num_samples >= 1
  /\ calls[Len(calls)][2].model # calls[1][1].model

====
